---- MODULE Spec2Model ----
(***************************************************************************)
(* KeyClick: a key -> screen-coordinate click mapper.                      *)
(*                                                                         *)
(* The model follows the source files                                      *)
(*   state_machine.py   AppState, VALID_TRANSITIONS, StateMachine          *)
(*   config_manager.py  ConfigManager (the in-memory document and the file)*)
(*   mapping_manager.py MappingManager                                     *)
(*   action_executor.py execute_click, is_target_window_foreground         *)
(*   input_listener.py  KeyboardListener, MouseClickCapture                *)
(*   main.py            AppController (the handlers)                       *)
(*                                                                         *)
(* Events emitted by the listener threads are posted to the event queue of *)
(* the main thread; the controller's handlers run one at a time there.     *)
(***************************************************************************)
EXTENDS Integers, Sequences, FiniteSets, TLC

VARIABLES
    state,        \* StateMachine._state
    pending_key,  \* AppController._pending_key
    data,         \* ConfigManager._data
    disk,         \* the file config.json
    active,       \* MouseClickCapture._active
    queue,        \* events posted to the main thread, not yet handled
    has_win32,    \* action_executor._HAS_WIN32
    last,         \* what the last handler run was given and what it did
    flow,         \* how far the handler runs so far follow the configure scenario
    emitting      \* clicks _on_click has taken and not yet emitted

vars == <<state, pending_key, data, disk, active, queue, has_win32, last, flow,
         emitting>>

----------------------------------------------------------------------------
(* Bounds and input sets *)

MaxQueue == 1

Keys == {"f1", "a"}

Points == {<<100, 200>>, <<200, 100>>}

NoKey == "<None>"

NoMapping == <<>>

NoPoint == <<>>

----------------------------------------------------------------------------
(* state_machine.py *)

NORMAL == "NORMAL"
CONFIG_WAIT_KEY == "CONFIG_WAIT_KEY"
CONFIG_WAIT_CLICK == "CONFIG_WAIT_CLICK"
DISABLED == "DISABLED"

AppState == {NORMAL, CONFIG_WAIT_KEY, CONFIG_WAIT_CLICK, DISABLED}

\* (variant) the table with an edge DISABLED -> CONFIG_WAIT_KEY added
VALID_TRANSITIONS_loose(s) ==
    CASE s = NORMAL            -> {CONFIG_WAIT_KEY, DISABLED}
      [] s = CONFIG_WAIT_KEY   -> {CONFIG_WAIT_CLICK, NORMAL}
      [] s = CONFIG_WAIT_CLICK -> {NORMAL}
      [] s = DISABLED          -> {NORMAL, CONFIG_WAIT_KEY}
      [] OTHER                 -> {}

VALID_TRANSITIONS(s) ==
    CASE s = NORMAL            -> {CONFIG_WAIT_KEY, DISABLED}
      [] s = CONFIG_WAIT_KEY   -> {CONFIG_WAIT_CLICK, NORMAL}
      [] s = CONFIG_WAIT_CLICK -> {NORMAL}
      [] s = DISABLED          -> {NORMAL}
      [] OTHER                 -> {}

\* (variant) transition that emits state_changed on the no-op path too
transition_noisy(s, new_state) ==
    IF new_state = s
    THEN [ok |-> TRUE, state |-> s, emits |-> <<s>>]
    ELSE IF new_state \notin VALID_TRANSITIONS(s)
    THEN [ok |-> FALSE, state |-> s, emits |-> <<>>]
    ELSE [ok |-> TRUE, state |-> new_state, emits |-> <<new_state>>]

\* (variant) transition without the lookup in the table
transition_unchecked(s, new_state) ==
    IF new_state = s
    THEN [ok |-> TRUE, state |-> s, emits |-> <<>>]
    ELSE [ok |-> TRUE, state |-> new_state, emits |-> <<new_state>>]

\* StateMachine.transition: the returned value, the state afterwards and the
\* state_changed emissions.
transition(s, new_state) ==
    IF new_state = s
    THEN [ok |-> TRUE, state |-> s, emits |-> <<>>]
    ELSE IF new_state \notin VALID_TRANSITIONS(s)
    THEN [ok |-> FALSE, state |-> s, emits |-> <<>>]
    ELSE [ok |-> TRUE, state |-> new_state, emits |-> <<new_state>>]

----------------------------------------------------------------------------
(* Strings that the code takes apart are sequences of characters. *)

Valeton == <<"V", "a", "l", "e", "t", "o", "n">>

UpperToLower ==
    [A |-> "a", E |-> "e", L |-> "l", N |-> "n", O |-> "o", S |-> "s",
     T |-> "t", V |-> "v"]

\* str.lower(), character by character
str_lower(s) ==
    [i \in 1..Len(s) |->
        IF s[i] \in DOMAIN UpperToLower THEN UpperToLower[s[i]] ELSE s[i]]

\* Python's `needle in hay` on strings
str_in(needle, hay) ==
    \E i \in 0..(Len(hay) - Len(needle)) :
        SubSeq(hay, i + 1, i + Len(needle)) = needle

----------------------------------------------------------------------------
(* config_manager.py *)

DEFAULT_CONFIG ==
    [mappings |-> <<>>,
     settings |-> [restore_mouse_position    |-> TRUE,
                   require_foreground_window |-> FALSE,
                   target_window_title       |-> Valeton]]

----------------------------------------------------------------------------
(* json: the text that json.dump writes and json.load reads, as the JSON
   value it spells: an object is its members by name, a number its decimal
   digits, a literal its word, a string its characters. *)

Digits == <<"0", "1", "2", "3", "4", "5", "6", "7", "8", "9">>

\* int.__repr__, used by the encoder for a Python int
RECURSIVE nat_str(_)
nat_str(n) ==
    IF n < 10 THEN <<Digits[n + 1]>>
    ELSE Append(nat_str(n \div 10), Digits[(n % 10) + 1])

int_str(n) == IF n < 0 THEN <<"-">> \o nat_str(0 - n) ELSE nat_str(n)

\* int(), used by the decoder for a number without fraction or exponent
RECURSIVE nat_val(_)
nat_val(s) ==
    IF s = <<>> THEN 0
    ELSE 10 * nat_val(SubSeq(s, 1, Len(s) - 1))
            + (CHOOSE d \in 0..9 : Digits[d + 1] = s[Len(s)])

str_int(s) == IF s[1] = "-" THEN 0 - nat_val(Tail(s)) ELSE nat_val(s)

\* A JSON value: its kind, then what spells it.
JObject(members) == <<"object", members>>
JNumber(n) == <<"number">> \o int_str(n)
JLiteral(b) == <<"literal", IF b THEN "true" ELSE "false">>
JString(s) == <<"string">> \o s
JArray == <<"array">>
NoText == <<"none">>

\* json.dump of the document: {"mappings": {key: {"x": int, "y": int}},
\* "settings": {name: bool, "target_window_title": str}}
dumps_entry(e) == JObject([k \in DOMAIN e |-> JNumber(e[k])])

dumps_mappings(m) == JObject([k \in DOMAIN m |-> dumps_entry(m[k])])

dumps_settings(s) ==
    JObject([k \in DOMAIN s |->
                IF k = "target_window_title" THEN JString(s[k]) ELSE JLiteral(s[k])])

json_dumps(d) ==
    JObject([k \in DOMAIN d |->
                IF k = "mappings" THEN dumps_mappings(d[k]) ELSE dumps_settings(d[k])])

\* json.load: an object becomes a dict, a number an int, true/false a bool,
\* a string a str, [] a list.
RECURSIVE json_loads(_)
json_loads(j) ==
    CASE j[1] = "object"  -> [k \in DOMAIN j[2] |-> json_loads(j[2][k])]
      [] j[1] = "number"  -> str_int(Tail(j))
      [] j[1] = "literal" -> (j[2] = "true")
      [] j[1] = "string"  -> Tail(j)
      [] OTHER            -> <<>>

----------------------------------------------------------------------------
(* config_manager.py, continued *)

\* The file: absent, unparseable, or holding a JSON text.
FileMissing == [kind |-> "missing", text |-> NoText]
FileCorrupt == [kind |-> "corrupt", text |-> NoText]
FileJson(text) == [kind |-> "json", text |-> text]

\* (variant) save that writes the mappings only
save_mappings_only(d) == FileJson(json_dumps([mappings |-> d.mappings]))

\* ConfigManager.save: json.dump(self._data) replaces the file.
save(d) == FileJson(json_dumps(d))

\* (variant) load that puts the default settings over the file's
load_resets_settings(file) ==
    IF file.kind = "json"
    THEN LET doc == json_loads(file.text) IN
         IF file.text[1] # "object"
         THEN [data |-> doc, disk |-> file, raises |-> TRUE]
         ELSE LET d1  == IF "mappings" \notin DOMAIN doc
                         THEN doc @@ ("mappings" :> <<>>) ELSE doc
                  d2  == ("settings" :> DEFAULT_CONFIG.settings) @@ d1
              IN  [data |-> d2, disk |-> file, raises |-> FALSE]
    ELSE [data |-> DEFAULT_CONFIG, disk |-> save(DEFAULT_CONFIG), raises |-> FALSE]

\* (variant) load that takes a document lacking a field for no document
load_all_or_nothing(file) ==
    IF file.kind = "json" /\ file.text[1] = "object"
          /\ DOMAIN json_loads(file.text) = {"mappings", "settings"}
    THEN [data |-> json_loads(file.text), disk |-> file, raises |-> FALSE]
    ELSE [data |-> DEFAULT_CONFIG, disk |-> save(DEFAULT_CONFIG), raises |-> FALSE]

\* ConfigManager.load: the document in memory and the file afterwards, and
\* whether the call raised.  A JSON text that is not an object is parsed and
\* assigned, and the look for the top-level keys then raises TypeError, which
\* the except clause does not name.
load(file) ==
    IF file.kind = "json"
    THEN LET doc == json_loads(file.text) IN
         IF file.text[1] # "object"
         THEN [data |-> doc, disk |-> file, raises |-> TRUE]
         ELSE LET d1  == IF "mappings" \notin DOMAIN doc
                         THEN doc @@ ("mappings" :> <<>>) ELSE doc
                  d2  == IF "settings" \notin DOMAIN d1
                         THEN d1 @@ ("settings" :> DEFAULT_CONFIG.settings) ELSE d1
              IN  [data |-> d2, disk |-> file, raises |-> FALSE]
    ELSE LET d == json_loads(json_dumps(DEFAULT_CONFIG))   \* the deep copy
         IN  [data |-> d, disk |-> save(d), raises |-> FALSE]

\* (variant) set_mapping that keeps the new binding only
set_mapping_alone(d, key, x, y) ==
    LET m2 == [k \in {key} |-> [x |-> x, y |-> y]]
        d2 == [d EXCEPT !.mappings = m2]
    IN  [data |-> d2, disk |-> save(d2)]

\* (variant) set_mapping storing the coordinates swapped
set_mapping_swapped(d, key, x, y) ==
    LET m  == d.mappings
        m2 == [k \in (DOMAIN m) \cup {key} |->
                 IF k = key THEN [x |-> y, y |-> x] ELSE m[k]]
        d2 == [d EXCEPT !.mappings = m2]
    IN  [data |-> d2, disk |-> save(d2)]

\* ConfigManager.set_mapping: self._data["mappings"][key] = {"x": x, "y": y}; save()
set_mapping(d, key, x, y) ==
    LET m  == d.mappings
        m2 == [k \in (DOMAIN m) \cup {key} |->
                 IF k = key THEN [x |-> x, y |-> y] ELSE m[k]]
        d2 == [d EXCEPT !.mappings = m2]
    IN  [data |-> d2, disk |-> save(d2)]

\* (variant) remove_mapping that empties the mappings when the key is there
remove_mapping_clears(d, file, key) ==
    LET m == d.mappings IN
    IF key \in DOMAIN m
    THEN LET d2 == [d EXCEPT !.mappings = <<>>]
         IN  [data |-> d2, disk |-> save(d2), removed |-> TRUE]
    ELSE [data |-> d, disk |-> file, removed |-> FALSE]

\* ConfigManager.remove_mapping: deletes and saves only when the key is there.
remove_mapping(d, file, key) ==
    LET m == d.mappings IN
    IF key \in DOMAIN m
    THEN LET d2 == [d EXCEPT !.mappings = [k \in (DOMAIN m) \ {key} |-> m[k]]]
         IN  [data |-> d2, disk |-> save(d2), removed |-> TRUE]
    ELSE [data |-> d, disk |-> file, removed |-> FALSE]

\* (variant) get_mapping returning (y, x)
get_mapping_swapped(d, key) ==
    LET m == d.mappings IN
    IF key \in DOMAIN m /\ DOMAIN m[key] # {}
    THEN <<m[key].y, m[key].x>>
    ELSE NoMapping

\* (variant) get_mapping falling back to some stored mapping on a miss
get_mapping_fallback(d, key) ==
    LET m == d.mappings IN
    IF key \in DOMAIN m
    THEN <<m[key].x, m[key].y>>
    ELSE IF DOMAIN m = {}
    THEN NoMapping
    ELSE LET k == CHOOSE k \in DOMAIN m : TRUE IN <<m[k].x, m[k].y>>

\* ConfigManager.get_mapping: (x, y) or None
get_mapping(d, key) ==
    LET m == d.mappings IN
    IF key \in DOMAIN m /\ DOMAIN m[key] # {}
    THEN <<m[key].x, m[key].y>>
    ELSE NoMapping

\* ConfigManager.get_setting
get_setting(d, key, default) ==
    IF "settings" \in DOMAIN d /\ key \in DOMAIN d.settings
    THEN d.settings[key]
    ELSE default

\* (variant) update_setting that saves before it assigns
update_setting_saves_first(d, key, value) ==
    LET s  == IF "settings" \in DOMAIN d THEN d.settings ELSE <<>>
        s2 == [k \in (DOMAIN s) \cup {key} |-> IF k = key THEN value ELSE s[k]]
        d2 == [k \in (DOMAIN d) \cup {"settings"} |->
                 IF k = "settings" THEN s2 ELSE d[k]]
    IN  [data |-> d2, disk |-> save(d)]

\* ConfigManager.update_setting: setdefault("settings", {})[key] = value; save()
update_setting(d, key, value) ==
    LET s  == IF "settings" \in DOMAIN d THEN d.settings ELSE <<>>
        s2 == [k \in (DOMAIN s) \cup {key} |-> IF k = key THEN value ELSE s[k]]
        d2 == [k \in (DOMAIN d) \cup {"settings"} |->
                 IF k = "settings" THEN s2 ELSE d[k]]
    IN  [data |-> d2, disk |-> save(d2)]

----------------------------------------------------------------------------
(* action_executor.py *)

\* The focused window when the check is made: its title, and whether the
\* win32gui lookup raises (then no title is read).
FgTitles ==
    { <<"V", "A", "L", "E", "T", "O", "N", " ", "2">>,
      <<"N", "o", "t", "e", "s">>,
      <<>> }

FgOutcomes ==
    {[title |-> t, raises |-> FALSE] : t \in FgTitles}
        \cup {[title |-> <<"N", "o", "t", "e", "s">>, raises |-> TRUE]}

NoLookup == [title |-> <<>>, raises |-> FALSE]

\* (variant) the check answering True whatever the title
is_target_window_foreground_always(win32, window_title, fg) == TRUE

\* (variant) the check failing closed
is_target_window_foreground_failclosed(win32, window_title, fg) ==
    IF ~win32
    THEN FALSE
    ELSE IF fg.raises
    THEN FALSE
    ELSE str_in(str_lower(window_title), str_lower(fg.title))

is_target_window_foreground(win32, window_title, fg) ==
    IF ~win32
    THEN TRUE
    ELSE IF fg.raises
    THEN TRUE
    ELSE str_in(str_lower(window_title), str_lower(fg.title))

\* (variant) execute_click that leaves the pointer where it clicked
execute_click_no_restore(pos, x, y, restore_position) ==
    [pos |-> <<x, y>>, clicks |-> <<<<x, y>>>>]

\* execute_click: the pointer afterwards and the left clicks issued, each a
\* press and a release at the pointer's position.
execute_click(pos, x, y, restore_position) ==
    LET original == pos
        moved    == <<x, y>>
    IN  [pos    |-> IF restore_position THEN original ELSE moved,
         clicks |-> <<moved>>]

----------------------------------------------------------------------------
(* input_listener.py *)

LEFT == "left"
RIGHT == "right"
MIDDLE == "middle"
Buttons == {LEFT, RIGHT, MIDDLE}

\* (variant) start that never sets _active
capture_start_forgets(a) == a

\* MouseClickCapture.start: _active afterwards
capture_start(a) == IF a THEN a ELSE TRUE

\* (variant) _on_click that takes the press of any button
capture_on_click_anybutton(a, x, y, button, pressed) ==
    IF ~a
    THEN [active |-> a, emits |-> <<>>]
    ELSE IF pressed
    THEN [active |-> FALSE, emits |-> <<[type |-> "click", key |-> NoKey, pt |-> <<x, y>>]>>]
    ELSE [active |-> a, emits |-> <<>>]

\* (variant) _on_click that emits and stays active
capture_on_click_sticky(a, x, y, button, pressed) ==
    IF ~a
    THEN [active |-> a, emits |-> <<>>]
    ELSE IF button = LEFT /\ pressed
    THEN [active |-> a, emits |-> <<[type |-> "click", key |-> NoKey, pt |-> <<x, y>>]>>]
    ELSE [active |-> a, emits |-> <<>>]

\* MouseClickCapture._on_click, run by the mouse listener's thread (there is
\* one only while the capture is active): _active afterwards and the
\* mouse_clicked emissions.
capture_on_click(a, x, y, button, pressed) ==
    IF ~a
    THEN [active |-> a, emits |-> <<>>]
    ELSE IF button = LEFT /\ pressed
    THEN [active |-> FALSE, emits |-> <<[type |-> "click", key |-> NoKey, pt |-> <<x, y>>]>>]
    ELSE [active |-> a, emits |-> <<>>]

\* KeyboardListener._on_press: the key_pressed emissions
keyboard_on_press(running, name) ==
    IF ~running THEN <<>>
    ELSE <<[type |-> "key", key |-> name, pt |-> <<>>]>>

----------------------------------------------------------------------------
(* main.py: the handlers of AppController.  Each takes the controller's
   state c and yields the state afterwards together with what the handler
   did: the click-actuator invocations (calls), the state_changed
   notifications (notif), the status text set (status), the events posted
   by a capture that saw the simulated click (posted), and the pointer's
   position before and after when the handler moved it.  The pointer is
   wherever the user left it: pos is its position when the handler runs. *)

Ctl ==
    [state |-> state, pending_key |-> pending_key, data |-> data,
     disk |-> disk, active |-> active]

Result(c) ==
    [state |-> c.state, pending_key |-> c.pending_key, data |-> c.data,
     disk |-> c.disk, active |-> c.active,
     mouse_before |-> NoPoint, mouse_after |-> NoPoint,
     posted |-> <<>>, calls |-> <<>>, notif |-> <<>>, status |-> "",
     started |-> FALSE, ret |-> FALSE, looked |-> FALSE, fg |-> NoLookup,
     mappings_changed |-> FALSE]

\* (variant) _on_key_pressed dispatching whatever the state
on_key_pressed_stateless(c, key_name, win32, fg, pos) ==
    LET mapping == get_mapping(c.data, key_name) IN
    IF mapping = NoMapping
    THEN Result(c)
    ELSE [Result(c) EXCEPT
             !.calls = <<[x |-> mapping[1], y |-> mapping[2],
                          restore |-> get_setting(c.data, "restore_mouse_position", TRUE)]>>,
             !.status = "executed"]

\* (variant) _on_key_pressed where a key already bound cancels the
\* configuration
on_key_pressed_cancels(c, key_name, win32, fg, pos) ==
    IF c.state = CONFIG_WAIT_KEY
    THEN IF get_mapping(c.data, key_name) # NoMapping
         THEN LET t == transition(c.state, NORMAL) IN
              [Result(c) EXCEPT !.state = t.state, !.notif = t.emits]
         ELSE LET t == transition(c.state, CONFIG_WAIT_CLICK) IN
              [Result(c) EXCEPT !.pending_key = key_name,
                                !.state = t.state,
                                !.notif = t.emits,
                                !.status = "captured",
                                !.started = TRUE,
                                !.active = capture_start(c.active)]
    ELSE Result(c)

\* AppController._on_key_pressed
on_key_pressed(c, key_name, win32, fg, pos) ==
    IF c.state = CONFIG_WAIT_KEY
    THEN LET t == transition(c.state, CONFIG_WAIT_CLICK) IN
         [Result(c) EXCEPT !.pending_key = key_name,
                           !.state = t.state,
                           !.notif = t.emits,
                           !.status = "captured",
                           !.started = TRUE,
                           !.active = capture_start(c.active)]
    ELSE IF c.state = NORMAL
    THEN LET mapping == get_mapping(c.data, key_name) IN
         IF mapping = NoMapping
         THEN Result(c)
         ELSE LET x == mapping[1]
                  y == mapping[2]
                  require == get_setting(c.data, "require_foreground_window", FALSE)
                  title == get_setting(c.data, "target_window_title", Valeton)
              IN
              IF require /\ ~is_target_window_foreground(win32, title, fg)
              THEN [Result(c) EXCEPT !.looked = TRUE, !.fg = fg]
              ELSE LET restore == get_setting(c.data, "restore_mouse_position", TRUE)
                       e  == execute_click(pos, x, y, restore)
                       \* the simulated press and release reach a live capture
                       p  == capture_on_click(c.active, e.clicks[1][1], e.clicks[1][2], LEFT, TRUE)
                       q  == capture_on_click(p.active, e.clicks[1][1], e.clicks[1][2], LEFT, FALSE)
                   IN
                   [Result(c) EXCEPT !.looked = require,
                                     !.fg = IF require THEN fg ELSE NoLookup,
                                     !.calls = <<[x |-> x, y |-> y, restore |-> restore]>>,
                                     !.mouse_before = pos,
                                     !.mouse_after = e.pos,
                                     !.active = q.active,
                                     !.posted = p.emits \o q.emits,
                                     !.status = "executed"]
    ELSE Result(c)

\* MappingManager.add_mapping
add_mapping(d, key, x, y) == set_mapping(d, key, x, y)

\* (variant) _on_mouse_clicked that does not clear _pending_key
on_mouse_clicked_keeps_pending(c, x, y) ==
    IF c.state # CONFIG_WAIT_CLICK
    THEN Result(c)
    ELSE LET key == c.pending_key
             t   == transition(c.state, NORMAL)
             r0  == [Result(c) EXCEPT !.state = t.state, !.notif = t.emits]
         IN
         IF key # NoKey
         THEN LET w == add_mapping(c.data, key, x, y) IN
              [r0 EXCEPT !.data = w.data, !.disk = w.disk,
                         !.mappings_changed = TRUE, !.status = "saved"]
         ELSE r0

\* (variant) _on_mouse_clicked that drops the click
on_mouse_clicked_ignores(c, x, y) == Result(c)

\* (variant) _on_mouse_clicked without the stale-event guard
on_mouse_clicked_unguarded(c, x, y) ==
    LET key == c.pending_key
        t   == transition(c.state, NORMAL)
        r0  == [Result(c) EXCEPT !.pending_key = NoKey,
                                 !.state = t.state,
                                 !.notif = t.emits]
    IN
    IF key # NoKey
    THEN LET w == add_mapping(c.data, key, x, y) IN
         [r0 EXCEPT !.data = w.data, !.disk = w.disk,
                    !.mappings_changed = TRUE, !.status = "saved"]
    ELSE r0

\* AppController._on_mouse_clicked
on_mouse_clicked(c, x, y) ==
    IF c.state # CONFIG_WAIT_CLICK
    THEN Result(c)
    ELSE LET key == c.pending_key
             t   == transition(c.state, NORMAL)
             r0  == [Result(c) EXCEPT !.pending_key = NoKey,
                                      !.state = t.state,
                                      !.notif = t.emits]
         IN
         IF key # NoKey
         THEN LET w == add_mapping(c.data, key, x, y) IN
              [r0 EXCEPT !.data = w.data, !.disk = w.disk,
                         !.mappings_changed = TRUE, !.status = "saved"]
         ELSE r0

\* (variant) _on_add_key without the DISABLED check
on_add_key_unguarded(c) ==
    LET t == transition(c.state, CONFIG_WAIT_KEY) IN
    [Result(c) EXCEPT !.state = t.state,
                      !.notif = t.emits,
                      !.ret = t.ok,
                      !.status = IF t.ok THEN "press_key" ELSE ""]

\* AppController._on_add_key
on_add_key(c) ==
    IF c.state = DISABLED
    THEN [Result(c) EXCEPT !.status = "enable_first"]
    ELSE LET t == transition(c.state, CONFIG_WAIT_KEY) IN
         [Result(c) EXCEPT !.state = t.state,
                           !.notif = t.emits,
                           !.ret = t.ok,
                           !.status = IF t.ok THEN "press_key" ELSE ""]

\* AppController._on_remove_key, with the table's selected key (or None)
on_remove_key(c, key) ==
    IF key = NoKey
    THEN [Result(c) EXCEPT !.status = "select_first"]
    ELSE LET w == remove_mapping(c.data, c.disk, key) IN
         [Result(c) EXCEPT !.data = w.data, !.disk = w.disk,
                           !.ret = w.removed,
                           !.mappings_changed = w.removed,
                           !.status = IF w.removed THEN "removed" ELSE "not_found"]

\* (variant) _on_toggle_system that leaves a configuration in progress
on_toggle_system_abandons(c) ==
    IF c.state = DISABLED
    THEN LET t == transition(c.state, NORMAL) IN
         [Result(c) EXCEPT !.state = t.state, !.notif = t.emits,
                           !.status = "enabled"]
    ELSE IF c.state = NORMAL
    THEN LET t == transition(c.state, DISABLED) IN
         [Result(c) EXCEPT !.state = t.state, !.notif = t.emits,
                           !.status = "disabled"]
    ELSE LET t == transition(c.state, NORMAL) IN
         [Result(c) EXCEPT !.state = t.state, !.notif = t.emits,
                           !.pending_key = NoKey]

\* AppController._on_toggle_system
on_toggle_system(c) ==
    IF c.state = DISABLED
    THEN LET t == transition(c.state, NORMAL) IN
         [Result(c) EXCEPT !.state = t.state, !.notif = t.emits,
                           !.status = "enabled"]
    ELSE IF c.state = NORMAL
    THEN LET t == transition(c.state, DISABLED) IN
         [Result(c) EXCEPT !.state = t.state, !.notif = t.emits,
                           !.status = "disabled"]
    ELSE Result(c)

\* AppController._on_setting_changed
on_setting_changed(c, key, value) ==
    LET w == update_setting(c.data, key, value) IN
    [Result(c) EXCEPT !.data = w.data, !.disk = w.disk,
                      !.status = "setting_updated"]

----------------------------------------------------------------------------
(* The system *)

\* Files the program may find at start.
InitialFiles ==
    { FileMissing,
      FileCorrupt,
      FileJson(json_dumps(<<>>)),
      FileJson(json_dumps([mappings |-> [f1 |-> [x |-> 100, y |-> 200]]])),
      FileJson(json_dumps([settings |-> [restore_mouse_position    |-> FALSE,
                                         require_foreground_window |-> TRUE,
                                         target_window_title       |-> Valeton]])),
      FileJson(json_dumps([mappings |-> [a |-> [x |-> 200, y |-> 100]],
                           settings |-> [restore_mouse_position    |-> TRUE,
                                         require_foreground_window |-> TRUE,
                                         target_window_title       |-> Valeton]])) }

\* The scenario "start-configure from NORMAL, key-press k, click-captured
\* (x, y), key-press k" as an observer of the handler runs: stage n says that
\* the last n handler runs were its first n steps.
NoFlow == [stage |-> 0, key |-> NoKey, pt |-> NoPoint]

flow_step(f, op, key, pt, pre_state, post_state) ==
    IF op = "add" /\ pre_state = NORMAL /\ post_state = CONFIG_WAIT_KEY
    THEN [stage |-> 1, key |-> NoKey, pt |-> NoPoint]
    ELSE IF op = "key" /\ f.stage = 1 /\ pre_state = CONFIG_WAIT_KEY
    THEN [stage |-> 2, key |-> key, pt |-> NoPoint]
    ELSE IF op = "click" /\ f.stage = 2 /\ pre_state = CONFIG_WAIT_CLICK
    THEN [stage |-> 3, key |-> f.key, pt |-> pt]
    ELSE IF op = "key" /\ f.stage = 3 /\ key = f.key /\ pre_state = NORMAL
    THEN [stage |-> 4, key |-> f.key, pt |-> f.pt]
    ELSE NoFlow

\* What a handler run did, beyond the controller's fields it left behind.
Did(r) ==
    [active |-> r.active, mouse_before |-> r.mouse_before,
     mouse_after |-> r.mouse_after, posted |-> r.posted, calls |-> r.calls,
     notif |-> r.notif, status |-> r.status, started |-> r.started,
     ret |-> r.ret, looked |-> r.looked, fg |-> r.fg,
     mappings_changed |-> r.mappings_changed]

NoOp(c) ==
    [op |-> "none", key |-> NoKey, pt |-> <<>>, name |-> "", value |-> FALSE,
     target |-> "", pre |-> c, post |-> Did(Result(c))]

\* AppController.__init__: ConfigManager() loads the file, the state machine
\* starts in NORMAL, nothing is pending, the capture is idle.
Init ==
    \E file \in InitialFiles, w \in BOOLEAN :
        LET l == load(file) IN
        /\ state = NORMAL
        /\ pending_key = NoKey
        /\ data = l.data
        /\ disk = l.disk
        /\ active = FALSE
        /\ queue = <<>>
        /\ has_win32 = w
        /\ last = NoOp([state |-> NORMAL, pending_key |-> NoKey, data |-> l.data,
                        disk |-> l.disk, active |-> FALSE])
        /\ flow = NoFlow
        /\ emitting = <<>>

\* A handler has run: its result becomes the state, and the events it caused
\* are posted behind those still waiting.
Commit(r, rest, rec) ==
    /\ state' = r.state
    /\ pending_key' = r.pending_key
    /\ data' = r.data
    /\ disk' = r.disk
    /\ active' = r.active
    /\ queue' = rest \o r.posted
    /\ last' = [rec EXCEPT !.pre = Ctl, !.post = Did(r)]
    /\ flow' = flow_step(flow, rec.op, rec.key, rec.pt, state, r.state)

\* The keyboard listener's thread sees a key go down.
KeyDown(k) ==
    LET ev == keyboard_on_press(TRUE, k) IN
    /\ Len(queue) + Len(ev) <= MaxQueue
    /\ queue' = queue \o ev
    /\ UNCHANGED <<state, pending_key, data, disk, active, has_win32, last, flow,
                   emitting>>

\* The user presses or releases a mouse button at (x, y); the capture's
\* listener thread, when there is one, runs _on_click.
MouseEvent(pt, button, pressed) ==
    LET r == capture_on_click(active, pt[1], pt[2], button, pressed) IN
    /\ Len(queue) + Len(r.emits) <= MaxQueue
    /\ active' = r.active
    /\ queue' = queue \o r.emits
    /\ UNCHANGED <<state, pending_key, data, disk, has_win32, last, flow, emitting>>

\* A mouse_clicked event reaches the main thread's queue without a capture
\* having fired for it.
StrayClick(pt) ==
    /\ Len(queue) < MaxQueue
    /\ queue' = Append(queue, [type |-> "click", key |-> NoKey, pt |-> pt])
    /\ UNCHANGED <<state, pending_key, data, disk, active, has_win32, last, flow,
                   emitting>>

\* The main thread delivers the oldest posted event to its slot.
DispatchKey ==
    /\ queue # <<>>
    /\ Head(queue).type = "key"
    /\ \E fg \in FgOutcomes, pos \in Points :
          Commit(on_key_pressed(Ctl, Head(queue).key, has_win32, fg, pos), Tail(queue),
                 [NoOp(Ctl) EXCEPT !.op = "key", !.key = Head(queue).key])
    /\ UNCHANGED <<has_win32, emitting>>

DispatchClick ==
    /\ queue # <<>>
    /\ Head(queue).type = "click"
    /\ Commit(on_mouse_clicked(Ctl, Head(queue).pt[1], Head(queue).pt[2]), Tail(queue),
              [NoOp(Ctl) EXCEPT !.op = "click", !.pt = Head(queue).pt])
    /\ UNCHANGED <<has_win32, emitting>>

\* The window's buttons and checkboxes.
AddKey ==
    /\ Commit(on_add_key(Ctl), queue, [NoOp(Ctl) EXCEPT !.op = "add"])
    /\ UNCHANGED <<has_win32, emitting>>

RemoveKey(sel) ==
    /\ Commit(on_remove_key(Ctl, sel), queue,
              [NoOp(Ctl) EXCEPT !.op = "remove", !.key = sel])
    /\ UNCHANGED <<has_win32, emitting>>

ToggleSystem ==
    /\ Commit(on_toggle_system(Ctl), queue, [NoOp(Ctl) EXCEPT !.op = "toggle"])
    /\ UNCHANGED <<has_win32, emitting>>

SettingNames == {"restore_mouse_position", "require_foreground_window"}

SettingChanged(name, value) ==
    /\ Commit(on_setting_changed(Ctl, name, value), queue,
              [NoOp(Ctl) EXCEPT !.op = "setting", !.name = name, !.value = value])
    /\ UNCHANGED <<has_win32, emitting>>

\* What the user does with the mouse: a left press anywhere, a left release,
\* a press of another button.
MouseEvents ==
    {[pt |-> pt, button |-> LEFT, pressed |-> TRUE] : pt \in Points}
        \cup {[pt |-> <<100, 200>>, button |-> LEFT, pressed |-> FALSE],
              [pt |-> <<200, 100>>, button |-> RIGHT, pressed |-> TRUE],
              [pt |-> <<100, 200>>, button |-> MIDDLE, pressed |-> TRUE]}

Next ==
    \/ \E k \in Keys : KeyDown(k)
    \/ \E ev \in MouseEvents : MouseEvent(ev.pt, ev.button, ev.pressed)
    \/ \E pt \in Points : StrayClick(pt)
    \/ DispatchKey
    \/ DispatchClick
    \/ AddKey
    \/ \E sel \in Keys \cup {NoKey} : RemoveKey(sel)
    \/ ToggleSystem
    \/ \E name \in SettingNames, value \in BOOLEAN : SettingChanged(name, value)

Spec == Init /\ [][Next]_vars

----------------------------------------------------------------------------
(* The program as it runs: the keyboard listener's thread, the thread of the
   capture's mouse listener and the main thread, which runs the handlers of
   the posted events and of the window's buttons and checkboxes, the buttons
   being enabled as update_state leaves them. *)

\* MainWindow.update_state: the add, remove and toggle buttons are disabled
\* in the two CONFIG states.
buttons_enabled(s) == s \notin {CONFIG_WAIT_KEY, CONFIG_WAIT_CLICK}

\* MainWindow.selected_key: the key of the selected row of the table, which
\* shows the mappings, or None.
selected_keys(d) == (DOMAIN d.mappings) \cup {NoKey}

\* The mouse listener's thread runs _on_click up to the assignment of
\* _active; the emission is its next step.  name and value of `last` hold
\* the button and whether it went down.
ClickSeen(pt, button, pressed) ==
    LET r == capture_on_click(active, pt[1], pt[2], button, pressed) IN
    /\ active' = r.active
    /\ emitting' = emitting \o r.emits
    /\ last' = [NoOp(Ctl) EXCEPT !.op = "mouse", !.pt = pt, !.name = button,
                                 !.value = pressed,
                                 !.post.active = r.active,
                                 !.post.posted = r.emits]
    /\ UNCHANGED <<state, pending_key, data, disk, queue, has_win32, flow>>

\* mouse_clicked.emit in the listener's thread: the event is posted to the
\* main thread.
ClickEmit ==
    /\ emitting # <<>>
    /\ queue' = Append(queue, Head(emitting))
    /\ emitting' = Tail(emitting)
    /\ UNCHANGED <<state, pending_key, data, disk, active, has_win32, last, flow>>

PressAdd ==
    /\ buttons_enabled(state)
    /\ AddKey

PressRemove(sel) ==
    /\ buttons_enabled(state)
    /\ sel \in selected_keys(data)
    /\ RemoveKey(sel)

PressToggle ==
    /\ buttons_enabled(state)
    /\ ToggleSystem

\* A checkbox is toggled: setting_changed carries its new value.
ToggleCheckbox(name) ==
    /\ SettingChanged(name, ~get_setting(data, name, FALSE))

NextThreads ==
    \/ \E k \in Keys : KeyDown(k)
    \/ \E ev \in MouseEvents : ClickSeen(ev.pt, ev.button, ev.pressed)
    \/ ClickEmit
    \/ DispatchKey
    \/ DispatchClick
    \/ PressAdd
    \/ \E sel \in Keys \cup {NoKey} : PressRemove(sel)
    \/ PressToggle
    \/ \E name \in SettingNames : ToggleCheckbox(name)

SpecThreads == Init /\ [][NextThreads]_vars

\* The user does press the left button while the capture waits for it.
LeftPress ==
    \E pt \in Points :
        /\ active
        /\ ClickSeen(pt, LEFT, TRUE)

\* The main thread's event loop takes the oldest posted event: a step of
\* DispatchKey or DispatchClick, the only steps that leave the queue its
\* tail.
EventTaken ==
    /\ queue # <<>>
    /\ queue' = Tail(queue)

\* The same program when the awaited left press does come, the listener's
\* thread goes on from the assignment of _active to its emission, and the
\* main thread's event loop goes on taking the posted events.
SpecLive ==
    /\ Init
    /\ [][NextThreads]_vars
    /\ WF_vars(LeftPress)
    /\ WF_vars(ClickEmit)
    /\ WF_queue(EventTaken)

----------------------------------------------------------------------------
(* The state machine alone: StateMachine(initial_state) and any sequence of
   transition(new_state) calls. *)

InitSM ==
    \E s0 \in AppState, file \in InitialFiles, w \in BOOLEAN :
        LET l == load(file) IN
        /\ state = s0
        /\ pending_key = NoKey
        /\ data = l.data
        /\ disk = l.disk
        /\ active = FALSE
        /\ queue = <<>>
        /\ has_win32 = w
        /\ last = NoOp([state |-> s0, pending_key |-> NoKey, data |-> l.data,
                        disk |-> l.disk, active |-> FALSE])
        /\ flow = NoFlow
        /\ emitting = <<>>

CallTransition(new_state) ==
    LET t == transition(state, new_state) IN
    /\ Commit([Result(Ctl) EXCEPT !.state = t.state, !.notif = t.emits, !.ret = t.ok],
              queue,
              [NoOp(Ctl) EXCEPT !.op = "transition", !.target = new_state])
    /\ UNCHANGED <<has_win32, emitting>>

NextSM == \E new_state \in AppState : CallTransition(new_state)

SpecSM == InitSM /\ [][NextSM]_vars

----------------------------------------------------------------------------
(* The store alone: ConfigManager() over whatever file is there, any
   sequence of set_mapping, remove_mapping and update_setting calls, and the
   program ending and starting again over the file it left. *)

StorePoints == Points \cup {<<-5, 0>>}

\* Files the constructor may find: those above, and a JSON text that is
\* not an object.
StoreFiles == InitialFiles \cup {FileJson(JArray)}

\* ConfigManager.__init__ before load(): self._data = {}
Constructed(file) ==
    [state |-> NORMAL, pending_key |-> NoKey, data |-> <<>>, disk |-> file,
     active |-> FALSE]

\* What a run of load() leaves in `last`.
Loaded(c, l) ==
    [NoOp(c) EXCEPT !.op = "load",
                    !.post.ret = ~l.raises,
                    !.post.status = IF l.raises THEN "TypeError" ELSE ""]

InitStore ==
    \E file \in StoreFiles :
        LET l == load(file) IN
        /\ state = NORMAL
        /\ pending_key = NoKey
        /\ data = l.data
        /\ disk = l.disk
        /\ active = FALSE
        /\ queue = <<>>
        /\ has_win32 = FALSE
        /\ last = Loaded(Constructed(file), l)
        /\ flow = NoFlow
        /\ emitting = <<>>

\* The constructor raised: there is no ConfigManager to call.
Crashed == last.op = "load" /\ ~last.post.ret

StoreSetMapping(key, pt) ==
    LET w == set_mapping(data, key, pt[1], pt[2]) IN
    /\ ~Crashed
    /\ Commit([Result(Ctl) EXCEPT !.data = w.data, !.disk = w.disk],
              queue,
              [NoOp(Ctl) EXCEPT !.op = "set_mapping", !.key = key, !.pt = pt])
    /\ UNCHANGED <<has_win32, emitting>>

StoreRemoveMapping(key) ==
    LET w == remove_mapping(data, disk, key) IN
    /\ ~Crashed
    /\ Commit([Result(Ctl) EXCEPT !.data = w.data, !.disk = w.disk,
                                  !.ret = w.removed],
              queue,
              [NoOp(Ctl) EXCEPT !.op = "remove_mapping", !.key = key])
    /\ UNCHANGED <<has_win32, emitting>>

StoreUpdateSetting(name, value) ==
    LET w == update_setting(data, name, value) IN
    /\ ~Crashed
    /\ Commit([Result(Ctl) EXCEPT !.data = w.data, !.disk = w.disk],
              queue,
              [NoOp(Ctl) EXCEPT !.op = "update_setting", !.name = name,
                                !.value = value])
    /\ UNCHANGED <<has_win32, emitting>>

\* The program ends and is started again: a new ConfigManager loads the file.
Restart ==
    LET l == load(disk) IN
    /\ state' = state
    /\ pending_key' = pending_key
    /\ data' = l.data
    /\ disk' = l.disk
    /\ last' = [Loaded(Ctl, l) EXCEPT !.pre = Ctl]
    /\ UNCHANGED <<active, queue, has_win32, flow, emitting>>

NextStore ==
    \/ \E key \in Keys, pt \in StorePoints : StoreSetMapping(key, pt)
    \/ \E key \in Keys : StoreRemoveMapping(key)
    \/ \E name \in SettingNames, value \in BOOLEAN : StoreUpdateSetting(name, value)
    \/ Restart

SpecStore == InitStore /\ [][NextStore]_vars

----------------------------------------------------------------------------
(* Properties *)

\* The transition table as the specification states it.
ClaimedEdges ==
    { <<NORMAL, CONFIG_WAIT_KEY>>, <<NORMAL, DISABLED>>,
      <<CONFIG_WAIT_KEY, CONFIG_WAIT_CLICK>>, <<CONFIG_WAIT_KEY, NORMAL>>,
      <<CONFIG_WAIT_CLICK, NORMAL>>,
      <<DISABLED, NORMAL>> }

\* The handler run recorded in `last` left the controller's fields alone.
ControllerUnchanged ==
    /\ state = last.pre.state
    /\ pending_key = last.pre.pending_key
    /\ data = last.pre.data
    /\ disk = last.pre.disk

\* The last handler run was a key-press in NORMAL for a key that had a binding.
BoundKeyInNormal ==
    /\ last.op = "key"
    /\ last.pre.state = NORMAL
    /\ last.key \in DOMAIN last.pre.data.mappings

RequireForeground == last.pre.data.settings.require_foreground_window

\* The focused window's title does not contain the configured title
\* (case-insensitively).
TitleMismatch ==
    ~str_in(str_lower(last.pre.data.settings.target_window_title),
            str_lower(last.post.fg.title))

\* The actuator invocation for the binding of the key pressed.
BoundCall ==
    [x |-> last.pre.data.mappings[last.key].x,
     y |-> last.pre.data.mappings[last.key].y,
     restore |-> last.pre.data.settings.restore_mouse_position]

\* C1: transition(T) called in state S returns success iff T = S or <<S, T>>
\* is an edge of the table; the state afterwards is T on success and still S
\* on failure.
C1_TransitionContract ==
    last.op = "transition" =>
        LET S == last.pre.state
            T == last.target
        IN  /\ last.post.ret = (T = S \/ <<S, T>> \in ClaimedEdges)
            /\ state = IF last.post.ret THEN T ELSE S

C1_Witness ==
    /\ last.op = "transition"
    /\ last.pre.state = DISABLED
    /\ last.target = CONFIG_WAIT_KEY
    /\ ~last.post.ret
    /\ state = DISABLED

\* C2: transition emits state_changed exactly once, carrying the new state,
\* when and only when the stored state changes; a call with the current state
\* succeeds silently; a rejected call emits nothing and changes nothing.
C2_NotifyOnChangeOnly ==
    last.op = "transition" =>
        /\ (state # last.pre.state => last.post.notif = <<state>>)
        /\ (state = last.pre.state => last.post.notif = <<>>)
        /\ (last.target = last.pre.state => last.post.ret /\ last.post.notif = <<>>)
        /\ (~last.post.ret => last.post.notif = <<>> /\ ControllerUnchanged)

C2_Witness ==
    /\ last.op = "transition"
    /\ last.pre.state = CONFIG_WAIT_KEY
    /\ last.target = CONFIG_WAIT_CLICK
    /\ state = CONFIG_WAIT_CLICK
    /\ last.post.notif = <<CONFIG_WAIT_CLICK>>

\* C3: the application state starts as NORMAL, is always one of the four
\* states, and every change of it follows an edge of the table, whatever
\* events arrive in whatever order.
C3_OnlyTableEdges ==
    /\ state = NORMAL
    /\ [](state \in AppState)
    /\ [][state' # state => <<state, state'>> \in ClaimedEdges]_vars

C3_Witness ==
    /\ last.op = "click"
    /\ last.pre.state = CONFIG_WAIT_CLICK
    /\ state = NORMAL
    /\ flow.stage = 3

\* C4: a key-press handled in CONFIG_WAIT_KEY, for any key name, moves to
\* CONFIG_WAIT_CLICK, makes that key the pending key and starts the mouse
\* capture; the bindings and the click actuator are not touched.
C4_KeyCapturedInConfig ==
    (last.op = "key" /\ last.pre.state = CONFIG_WAIT_KEY) =>
        /\ state = CONFIG_WAIT_CLICK
        /\ pending_key = last.key
        /\ last.post.started
        /\ last.post.active
        /\ data = last.pre.data
        /\ disk = last.pre.disk
        /\ last.post.calls = <<>>

C4_Witness ==
    /\ last.op = "key"
    /\ last.pre.state = CONFIG_WAIT_KEY
    /\ last.key \in DOMAIN last.pre.data.mappings
    /\ state = CONFIG_WAIT_CLICK
    /\ pending_key = last.key

\* C5: a captured click (x, y) handled in CONFIG_WAIT_CLICK with pending key
\* k leaves k bound to exactly (x, y), the state NORMAL and no pending key.
C5_ClickCommitsBinding ==
    (last.op = "click" /\ last.pre.state = CONFIG_WAIT_CLICK
        /\ last.pre.pending_key # NoKey) =>
        /\ last.pre.pending_key \in DOMAIN data.mappings
        /\ data.mappings[last.pre.pending_key] = [x |-> last.pt[1], y |-> last.pt[2]]
        /\ state = NORMAL
        /\ pending_key = NoKey

C5_Witness ==
    /\ last.op = "click"
    /\ last.pre.state = CONFIG_WAIT_CLICK
    /\ last.pre.pending_key \in DOMAIN last.pre.data.mappings
    /\ last.pre.data.mappings[last.pre.pending_key] # [x |-> last.pt[1], y |-> last.pt[2]]
    /\ last.pt[1] # last.pt[2]
    /\ state = NORMAL

\* C6: a captured-click event handled outside CONFIG_WAIT_CLICK changes
\* neither the state, nor the pending key, nor the bindings, nor the file.
C6_StaleClickDropped ==
    (last.op = "click" /\ last.pre.state # CONFIG_WAIT_CLICK) =>
        /\ ControllerUnchanged
        /\ last.post.notif = <<>>

C6_Witness ==
    /\ last.op = "click"
    /\ last.pre.state = NORMAL
    /\ state = NORMAL
    /\ DOMAIN data.mappings # {}
    /\ disk = last.pre.disk

\* C7: after start-configure, key-press k and click-captured (x, y), begun in
\* NORMAL, a key-press k handled in NORMAL with require_foreground_window
\* false invokes the click actuator exactly once, at (x, y) and with the
\* restore_mouse_position setting, and leaves state and bindings as they were.
C7_ScenarioDispatch ==
    (flow.stage = 4 /\ ~RequireForeground) =>
        /\ last.post.calls =
              <<[x |-> flow.pt[1], y |-> flow.pt[2],
                 restore |-> last.pre.data.settings.restore_mouse_position]>>
        /\ state = NORMAL
        /\ data = last.pre.data

C7_Witness ==
    /\ flow = [stage |-> 4, key |-> "f1", pt |-> <<100, 200>>]
    /\ ~RequireForeground
    /\ ~last.pre.data.settings.restore_mouse_position
    /\ Len(last.post.calls) = 1

\* C8: a key-press handled in NORMAL for a key without a binding invokes no
\* click and changes neither state, pending key nor bindings.
C8_UnmappedKeyIgnored ==
    (last.op = "key" /\ last.pre.state = NORMAL
        /\ last.key \notin DOMAIN last.pre.data.mappings) =>
        /\ last.post.calls = <<>>
        /\ ControllerUnchanged

C8_Witness ==
    /\ last.op = "key"
    /\ last.pre.state = NORMAL
    /\ last.key \notin DOMAIN last.pre.data.mappings
    /\ DOMAIN last.pre.data.mappings # {}
    /\ ~RequireForeground

\* C9 as stated: in NORMAL with require_foreground_window true, a key-press
\* for a bound key while the focused window's title does not contain the
\* configured title invokes no click and changes neither state nor bindings.
C9_AsStated ==
    (BoundKeyInNormal /\ RequireForeground /\ TitleMismatch) =>
        /\ last.post.calls = <<>>
        /\ ControllerUnchanged

\* C9 amended: the same, when the focus lookup can be made (win32gui is
\* there and the lookup does not raise).
C9_NoClickWhenUnfocused ==
    (BoundKeyInNormal /\ RequireForeground /\ TitleMismatch
        /\ has_win32 /\ ~last.post.fg.raises) =>
        /\ last.post.calls = <<>>
        /\ ControllerUnchanged

C9_Witness ==
    /\ BoundKeyInNormal
    /\ RequireForeground
    /\ last.post.looked
    /\ TitleMismatch
    /\ last.post.fg.title # <<>>
    /\ has_win32
    /\ ~last.post.fg.raises
    /\ last.post.calls = <<>>

\* C10: when the focus cannot be looked up (no win32gui, or the lookup
\* raises) is_target_window_foreground answers true for every title, and a
\* key-press for a bound key in NORMAL with require_foreground_window true
\* invokes the click actuator exactly once.
C10_FocusCheckFailsOpen ==
    /\ \A t \in FgTitles \cup {Valeton}, fg \in FgOutcomes :
          (~has_win32 \/ fg.raises) => is_target_window_foreground(has_win32, t, fg)
    /\ (BoundKeyInNormal /\ RequireForeground /\ (~has_win32 \/ last.post.fg.raises)) =>
          last.post.calls = <<BoundCall>>

C10_Witness ==
    /\ BoundKeyInNormal
    /\ RequireForeground
    /\ has_win32
    /\ last.post.fg.raises
    /\ TitleMismatch
    /\ last.post.calls = <<BoundCall>>

\* C11: a key-press handled in CONFIG_WAIT_CLICK or DISABLED is ignored, for
\* every key name, bound or not: the click actuator is not invoked, and the
\* state, the pending key and the bindings stay as they were.
C11_KeyIgnoredWhenBusy ==
    (last.op = "key" /\ last.pre.state \in {CONFIG_WAIT_CLICK, DISABLED}) =>
        /\ last.post.calls = <<>>
        /\ last.post.notif = <<>>
        /\ ControllerUnchanged

C11_Witness ==
    /\ last.op = "key"
    /\ last.pre.state = CONFIG_WAIT_CLICK
    /\ last.key \in DOMAIN last.pre.data.mappings
    /\ last.pre.pending_key # NoKey
    /\ last.pre.pending_key # last.key
    /\ pending_key = last.pre.pending_key
    /\ state = CONFIG_WAIT_CLICK

\* C12 as stated: start-configure is rejected in DISABLED (state unchanged,
\* the "enable first" status shown) and in every other state leaves the
\* machine in CONFIG_WAIT_KEY.
C12_AsStated ==
    last.op = "add" =>
        /\ (last.pre.state = DISABLED =>
               state = DISABLED /\ last.post.status = "enable_first")
        /\ (last.pre.state # DISABLED => state = CONFIG_WAIT_KEY)

\* C12 amended: start-configure is rejected in DISABLED (nothing changes, the
\* "enable first" status is shown); from NORMAL and from CONFIG_WAIT_KEY the
\* machine is in CONFIG_WAIT_KEY afterwards; in CONFIG_WAIT_CLICK the state
\* machine refuses the transition, the state stays CONFIG_WAIT_CLICK and no
\* status is shown.
C12_StartConfigure ==
    last.op = "add" =>
        /\ (last.pre.state = DISABLED =>
               /\ ControllerUnchanged
               /\ last.post.notif = <<>>
               /\ last.post.status = "enable_first")
        /\ (last.pre.state \in {NORMAL, CONFIG_WAIT_KEY} =>
               /\ state = CONFIG_WAIT_KEY
               /\ last.post.status = "press_key")
        /\ (last.pre.state = CONFIG_WAIT_CLICK =>
               /\ ControllerUnchanged
               /\ ~last.post.ret
               /\ last.post.notif = <<>>
               /\ last.post.status = "")

C12_Witness ==
    /\ last.op = "add"
    /\ last.pre.state = CONFIG_WAIT_CLICK
    /\ last.pre.pending_key # NoKey
    /\ state = CONFIG_WAIT_CLICK
    /\ ~last.post.ret

\* C13: the toggle intent takes NORMAL to DISABLED and DISABLED to NORMAL; in
\* CONFIG_WAIT_KEY and CONFIG_WAIT_CLICK it does nothing, the state and the
\* pending key staying as they were; in no state does it touch the bindings.
C13_Toggle ==
    last.op = "toggle" =>
        /\ (last.pre.state = NORMAL =>
               state = DISABLED /\ last.post.notif = <<DISABLED>>)
        /\ (last.pre.state = DISABLED =>
               state = NORMAL /\ last.post.notif = <<NORMAL>>)
        /\ (last.pre.state \in {CONFIG_WAIT_KEY, CONFIG_WAIT_CLICK} =>
               /\ state = last.pre.state
               /\ pending_key = last.pre.pending_key
               /\ last.post.notif = <<>>)
        /\ data = last.pre.data
        /\ disk = last.pre.disk

C13_Witness ==
    /\ last.op = "toggle"
    /\ last.pre.state = CONFIG_WAIT_CLICK
    /\ last.pre.pending_key # NoKey
    /\ state = CONFIG_WAIT_CLICK
    /\ pending_key = last.pre.pending_key
    /\ DOMAIN data.mappings # {}

\* C14: the remove intent for a key name k, in any of the four states,
\* deletes k's binding and reports true when there is one, reports false and
\* changes nothing when there is none; the state, the pending key and the
\* bindings of the other keys stay as they were.
C14_Remove ==
    (last.op = "remove" /\ last.key # NoKey) =>
        LET m0 == last.pre.data.mappings
            m1 == data.mappings
            k  == last.key
        IN  /\ last.post.ret = (k \in DOMAIN m0)
            /\ DOMAIN m1 = (DOMAIN m0) \ {k}
            /\ \A j \in DOMAIN m1 : m1[j] = m0[j]
            /\ (k \notin DOMAIN m0 => ControllerUnchanged)
            /\ state = last.pre.state
            /\ pending_key = last.pre.pending_key

C14_Witness ==
    /\ last.op = "remove"
    /\ last.pre.state = CONFIG_WAIT_CLICK
    /\ last.pre.pending_key # NoKey
    /\ last.key \in DOMAIN last.pre.data.mappings
    /\ Cardinality(DOMAIN last.pre.data.mappings) = 2
    /\ Cardinality(DOMAIN data.mappings) = 1
    /\ last.post.ret
    /\ state = CONFIG_WAIT_CLICK

\* C15: the setting-changed intent (name, value) stores that one setting and
\* has written the file holding it when it returns; the state, the pending
\* key, the bindings and the other settings stay as they were.
C15_SettingChanged ==
    last.op = "setting" =>
        LET s0 == last.pre.data.settings
            s1 == data.settings
        IN  /\ s1[last.name] = last.value
            /\ DOMAIN s1 = (DOMAIN s0) \cup {last.name}
            /\ \A k \in (DOMAIN s0) \ {last.name} : s1[k] = s0[k]
            /\ data.mappings = last.pre.data.mappings
            /\ state = last.pre.state
            /\ pending_key = last.pre.pending_key
            /\ disk = save(data)
            /\ load(disk).data.settings[last.name] = last.value

C15_Witness ==
    /\ last.op = "setting"
    /\ last.name = "require_foreground_window"
    /\ last.value
    /\ ~last.pre.data.settings.require_foreground_window
    /\ ~last.pre.data.settings.restore_mouse_position
    /\ data.settings.require_foreground_window
    /\ DOMAIN data.mappings # {}
    /\ state = CONFIG_WAIT_KEY

\* C16: the bindings hold one entry per key name: committing (k, x, y) makes
\* k's entry (x, y); when k was bound already the number of entries is the
\* same as before, and the entries of all other keys are as they were.
C16_OneBindingPerKey ==
    (last.op = "click" /\ last.pre.state = CONFIG_WAIT_CLICK
        /\ last.pre.pending_key # NoKey) =>
        LET m0 == last.pre.data.mappings
            m1 == data.mappings
            k  == last.pre.pending_key
        IN  /\ DOMAIN m1 = (DOMAIN m0) \cup {k}
            /\ m1[k] = [x |-> last.pt[1], y |-> last.pt[2]]
            /\ (k \in DOMAIN m0 =>
                   Cardinality(DOMAIN m1) = Cardinality(DOMAIN m0))
            /\ \A j \in (DOMAIN m0) \ {k} : m1[j] = m0[j]
            /\ load(disk).data.mappings = m1

C16_Witness ==
    /\ last.op = "click"
    /\ last.pre.state = CONFIG_WAIT_CLICK
    /\ last.pre.pending_key \in DOMAIN last.pre.data.mappings
    /\ Cardinality(DOMAIN last.pre.data.mappings) = 2
    /\ Cardinality(DOMAIN data.mappings) = 2
    /\ data.mappings[last.pre.pending_key] # last.pre.data.mappings[last.pre.pending_key]
    /\ data.mappings[last.pre.pending_key] = [x |-> last.pt[1], y |-> last.pt[2]]

\* What the file spells, read as json.load reads it.
Persisted == json_loads(disk.text)

\* The last call was a mutation of the store that went through.
Mutated ==
    \/ last.op \in {"set_mapping", "update_setting"}
    \/ last.op = "remove_mapping" /\ last.post.ret

\* C17: after every completed mutation of the store (set_mapping, a
\* remove_mapping that found its key, update_setting) the file is the one
\* save writes for the document in memory, and reads back as exactly the
\* mappings and settings in memory.
C17_SavedAfterMutation ==
    Mutated =>
        /\ disk.kind = "json"
        /\ DOMAIN Persisted = DOMAIN data
        /\ Persisted.mappings = data.mappings
        /\ Persisted.settings = data.settings
        /\ disk = save(data)

C17_Witness ==
    /\ last.op = "remove_mapping"
    /\ last.post.ret
    /\ last.pre.disk.kind = "json"
    /\ "settings" \notin DOMAIN json_loads(last.pre.disk.text)
    /\ Persisted.settings = data.settings
    /\ Persisted.mappings = <<>>
    /\ data.mappings = <<>>

\* C18: for the mappings and settings that any sequence of set_mapping,
\* remove_mapping and update_setting calls leaves in memory, saving them and
\* loading the file again gives the same mappings and the same settings;
\* so a restart over the file a mutation wrote finds what was in memory.
C18_RoundTrip ==
    /\ ~Crashed =>
          LET l == load(save(data)) IN
          /\ ~l.raises
          /\ l.data.mappings = data.mappings
          /\ l.data.settings = data.settings
    /\ (/\ last.op = "load"
        /\ {"mappings", "settings"} \subseteq DOMAIN last.pre.data
        /\ last.pre.disk = save(last.pre.data)) =>
          /\ last.post.ret
          /\ data.mappings = last.pre.data.mappings
          /\ data.settings = last.pre.data.settings

C18_Witness ==
    /\ last.op = "load"
    /\ {"mappings", "settings"} \subseteq DOMAIN last.pre.data
    /\ last.pre.disk = save(last.pre.data)
    /\ DOMAIN data.mappings = {"f1", "a"}
    /\ data.mappings["f1"] = [x |-> -5, y |-> 0]
    /\ data.mappings["a"] = [x |-> 200, y |-> 100]
    /\ ~data.settings.restore_mouse_position
    /\ data.settings.require_foreground_window
    /\ data = last.pre.data

\* The file load() found was not there, or not JSON, or JSON but not an
\* object.
MalformedFile ==
    \/ last.pre.disk.kind \in {"missing", "corrupt"}
    \/ last.pre.disk.kind = "json" /\ last.pre.disk.text[1] # "object"

\* C19: loading when the file is missing or malformed (not JSON, or JSON
\* that is not an object) never fails: the store becomes the default
\* document, and the default is written at once, so that the file reads
\* back as the default.
C19_LoadNeverFails ==
    (last.op = "load" /\ MalformedFile) =>
        /\ last.post.ret
        /\ data = DEFAULT_CONFIG
        /\ disk = save(DEFAULT_CONFIG)
        /\ Persisted = DEFAULT_CONFIG

\* The document in the file load() found, a JSON object.
FoundDoc == json_loads(last.pre.disk.text)

\* C20: loading a document that lacks exactly one of the two top-level
\* fields fills in the default for that field only: with mappings and no
\* settings the mappings are kept and the settings are the default ones;
\* with settings and no mappings the settings are kept and the mappings are
\* empty.
C20_PartialDocumentRepaired ==
    (/\ last.op = "load"
     /\ last.pre.disk.kind = "json"
     /\ last.pre.disk.text[1] = "object") =>
        /\ ("mappings" \in DOMAIN FoundDoc /\ "settings" \notin DOMAIN FoundDoc) =>
              /\ last.post.ret
              /\ data.mappings = FoundDoc.mappings
              /\ data.settings = DEFAULT_CONFIG.settings
        /\ ("settings" \in DOMAIN FoundDoc /\ "mappings" \notin DOMAIN FoundDoc) =>
              /\ last.post.ret
              /\ data.settings = FoundDoc.settings
              /\ data.mappings = <<>>

C20_Witness ==
    /\ last.op = "load"
    /\ last.pre.disk.kind = "json"
    /\ last.pre.disk.text[1] = "object"
    /\ DOMAIN FoundDoc = {"mappings"}
    /\ DOMAIN FoundDoc.mappings = {"f1"}
    /\ data.mappings = FoundDoc.mappings
    /\ data.settings = DEFAULT_CONFIG.settings
    /\ disk = last.pre.disk

\* The mouse_clicked events there are or can still come: one for an active
\* capture, those taken and not yet emitted, those posted and not yet
\* handled.
ClicksPosted == {i \in DOMAIN queue : queue[i].type = "click"}

ClickTokens ==
    (IF active THEN 1 ELSE 0) + Len(emitting) + Cardinality(ClicksPosted)

\* C21: the capture emits at most one mouse_clicked per start: the first
\* left press after start emits its (x, y) and deactivates the capture; a
\* right or middle press and any release emit nothing and leave it active;
\* an event seen by a deactivated capture emits nothing.  So while the state
\* is CONFIG_WAIT_CLICK there is exactly one click to come or to handle, and
\* outside it none.
C21_OneShotCapture ==
    /\ last.op = "mouse" =>
          LET press == last.name = LEFT /\ last.value IN
          /\ (last.pre.active /\ press) =>
                /\ last.post.posted =
                      <<[type |-> "click", key |-> NoKey, pt |-> last.pt]>>
                /\ ~last.post.active
          /\ (last.pre.active /\ ~press) =>
                /\ last.post.posted = <<>>
                /\ last.post.active
          /\ ~last.pre.active =>
                /\ last.post.posted = <<>>
                /\ ~last.post.active
    /\ ClickTokens = IF state = CONFIG_WAIT_CLICK THEN 1 ELSE 0

C21_Witness ==
    /\ last.op = "mouse"
    /\ last.pre.active
    /\ last.name = LEFT
    /\ last.value
    /\ ~active
    /\ emitting = <<[type |-> "click", key |-> NoKey, pt |-> last.pt]>>
    /\ ClicksPosted = {}
    /\ Len(queue) = 1
    /\ state = CONFIG_WAIT_CLICK

\* C22: execute_click(x, y, restore) moves the pointer to (x, y) and issues
\* exactly one left click there; when it returns the pointer is where it was
\* before the call if restore is true, and at (x, y) if restore is false.
C22_ExecuteClick ==
    /\ \A pos \in Points, pt \in StorePoints, restore \in BOOLEAN :
          LET e == execute_click(pos, pt[1], pt[2], restore) IN
          /\ e.clicks = <<pt>>
          /\ e.pos = IF restore THEN pos ELSE pt
    /\ (last.op = "key" /\ last.post.calls # <<>>) =>
          LET c == last.post.calls[1] IN
          /\ Len(last.post.calls) = 1
          /\ last.post.mouse_before \in Points
          /\ last.post.mouse_after =
                IF c.restore THEN last.post.mouse_before ELSE <<c.x, c.y>>

C22_Witness ==
    /\ last.op = "key"
    /\ Len(last.post.calls) = 1
    /\ ~last.post.calls[1].restore
    /\ last.post.mouse_before # <<last.post.calls[1].x, last.post.calls[1].y>>
    /\ last.post.mouse_after = <<last.post.calls[1].x, last.post.calls[1].y>>

\* C23: in every reachable state there is a pending key if and only if the
\* state is CONFIG_WAIT_CLICK; so the click handler never runs its branch
\* for CONFIG_WAIT_CLICK without a pending key, and nothing is pending in
\* NORMAL, CONFIG_WAIT_KEY and DISABLED.
C23_PendingIffWaitClick ==
    /\ (pending_key # NoKey) <=> (state = CONFIG_WAIT_CLICK)
    /\ ~(/\ last.op = "click"
         /\ last.pre.state = CONFIG_WAIT_CLICK
         /\ last.pre.pending_key = NoKey)

C23_Witness ==
    /\ last.op = "click"
    /\ last.pre.state = CONFIG_WAIT_CLICK
    /\ last.pre.pending_key = "a"
    /\ state = NORMAL
    /\ pending_key = NoKey
    /\ queue # <<>>


\* C24: whatever the interleaving of the listeners' threads and the main
\* thread, the capture is active only while the state is CONFIG_WAIT_CLICK,
\* and it becomes active only in the run of the key handler that enters
\* CONFIG_WAIT_CLICK from CONFIG_WAIT_KEY; that run finds the capture
\* inactive and starts it.  A run that calls execute_click finds no active
\* capture, and its simulated click posts no mouse_clicked.
C24_CaptureOnlyInWaitClick ==
    /\ [](active => state = CONFIG_WAIT_CLICK)
    /\ [][(~active /\ active') =>
             /\ last'.op = "key"
             /\ last'.pre.state = CONFIG_WAIT_KEY
             /\ last'.post.started
             /\ state' = CONFIG_WAIT_CLICK]_vars
    /\ []((last.op = "key" /\ last.post.calls # <<>>) =>
             /\ last.pre.state = NORMAL
             /\ ~last.pre.active
             /\ ~last.post.active
             /\ last.post.posted = <<>>)
    /\ []((last.op = "key" /\ last.pre.state = CONFIG_WAIT_KEY) =>
             /\ ~last.pre.active
             /\ emitting = <<>>
             /\ last.post.started
             /\ last.post.active)

C24_Witness ==
    /\ last.op = "key"
    /\ last.pre.state = CONFIG_WAIT_KEY
    /\ ~last.pre.active
    /\ last.post.started
    /\ active
    /\ state = CONFIG_WAIT_CLICK
    /\ data.mappings # <<>>
    /\ queue # <<>>


\* The click handler has just bound the key that was pending in
\* CONFIG_WAIT_CLICK to the coordinate of the click it handled, and the state
\* is NORMAL.
BoundByClick ==
    /\ last.op = "click"
    /\ last.pre.state = CONFIG_WAIT_CLICK
    /\ last.pre.pending_key \in Keys
    /\ state = NORMAL
    /\ pending_key = NoKey
    /\ get_mapping(data, last.pre.pending_key) = last.pt
    /\ last.post.mappings_changed

\* C25: once the state is CONFIG_WAIT_CLICK, when the left press comes and
\* the listener's thread and the main thread go on, the state becomes NORMAL
\* with the pending key bound to the coordinate of the press the capture
\* took: the key pending stays the same until then, the press's coordinate
\* is what the capture emits, what is posted and what the click handler
\* binds.  The state leaves CONFIG_WAIT_CLICK only in the run of the click
\* handler, to NORMAL: a key-press, Add / Configure, Enable / Disable, Remove
\* and a changed setting handled in CONFIG_WAIT_CLICK leave the state and the
\* pending key as they are.
C25_ClickCompletesConfigure ==
    /\ (state = CONFIG_WAIT_CLICK) ~> BoundByClick
    /\ [][state = CONFIG_WAIT_CLICK =>
             /\ state' = CONFIG_WAIT_CLICK => pending_key' = pending_key
             /\ state' # CONFIG_WAIT_CLICK =>
                   /\ last'.op = "click"
                   /\ last'.pre.pending_key = pending_key
                   /\ last'.pt = Head(queue).pt
                   /\ state' = NORMAL
             /\ (active /\ ~active') =>
                   /\ last'.op = "mouse"
                   /\ emitting' = <<[type |-> "click", key |-> NoKey, pt |-> last'.pt]>>
             /\ (emitting # <<>> /\ emitting' = <<>>) =>
                   /\ queue' = Append(queue, Head(emitting))
                   /\ ClicksPosted = {}]_vars
    /\ [](state = CONFIG_WAIT_CLICK =>
             LET same(r) == r.state = state /\ r.pending_key = pending_key IN
             /\ \A k \in Keys, fg \in FgOutcomes, pos \in Points :
                   same(on_key_pressed(Ctl, k, has_win32, fg, pos))
             /\ same(on_add_key(Ctl))
             /\ same(on_toggle_system(Ctl))
             /\ \A sel \in Keys \cup {NoKey} : same(on_remove_key(Ctl, sel))
             /\ \A name \in SettingNames, v \in BOOLEAN :
                   same(on_setting_changed(Ctl, name, v)))

C25_Witness ==
    /\ BoundByClick
    /\ last.pre.pending_key = "f1"
    /\ last.pt = <<200, 100>>
    /\ last.pre.data.mappings # <<>>
    /\ get_mapping(last.pre.data, "f1") # last.pt
    /\ active = FALSE
    /\ emitting = <<>>


\* C26: the table allows CONFIG_WAIT_KEY -> NORMAL, and no handler makes
\* that step: the state leaves CONFIG_WAIT_KEY only in a run of the key
\* handler, to CONFIG_WAIT_CLICK with the pressed key pending, and leaves
\* CONFIG_WAIT_CLICK only in a run of the click handler that binds the
\* pending key and saves, to NORMAL.  So between an entry into
\* CONFIG_WAIT_KEY and the next NORMAL a binding was committed.  The click,
\* add, toggle, remove and setting-changed handlers applied in
\* CONFIG_WAIT_KEY leave the state as it is.
C26_ConfigureNeverAbandoned ==
    /\ [](NORMAL \in VALID_TRANSITIONS(CONFIG_WAIT_KEY))
    /\ [][(state = CONFIG_WAIT_KEY /\ state' # CONFIG_WAIT_KEY) =>
             /\ state' = CONFIG_WAIT_CLICK
             /\ last'.op = "key"
             /\ last'.key \in Keys
             /\ pending_key' = last'.key]_vars
    /\ [][(state = CONFIG_WAIT_CLICK /\ state' # CONFIG_WAIT_CLICK) =>
             /\ state' = NORMAL
             /\ last'.op = "click"
             /\ last'.post.mappings_changed
             /\ get_mapping(data', pending_key) = last'.pt
             /\ disk' = save(data')]_vars
    /\ [][(state # CONFIG_WAIT_KEY /\ state' = CONFIG_WAIT_KEY) =>
             /\ state = NORMAL
             /\ last'.op = "add"]_vars
    /\ [](state = CONFIG_WAIT_KEY =>
             /\ \A pt \in Points :
                   on_mouse_clicked(Ctl, pt[1], pt[2]).state = CONFIG_WAIT_KEY
             /\ on_add_key(Ctl).state = CONFIG_WAIT_KEY
             /\ on_toggle_system(Ctl).state = CONFIG_WAIT_KEY
             /\ \A sel \in Keys \cup {NoKey} :
                   on_remove_key(Ctl, sel).state = CONFIG_WAIT_KEY
             /\ \A name \in SettingNames, v \in BOOLEAN :
                   on_setting_changed(Ctl, name, v).state = CONFIG_WAIT_KEY
             /\ \A k \in Keys, fg \in FgOutcomes, pos \in Points :
                   on_key_pressed(Ctl, k, has_win32, fg, pos).state
                      = CONFIG_WAIT_CLICK)

C26_Witness ==
    /\ flow.stage = 3
    /\ last.op = "click"
    /\ last.pre.state = CONFIG_WAIT_CLICK
    /\ last.post.mappings_changed
    /\ state = NORMAL
    /\ get_mapping(data, flow.key) = flow.pt
    /\ get_mapping(last.pre.data, flow.key) = NoMapping

====
